---- MODULE Spec2Model ----
(***************************************************************************)
(* Model of shcomplete/seq2seq_correction.py: the synthetic corruption of  *)
(* shell commands (create_mistakes, generate_input), the fixed-width       *)
(* one-hot codec (Seq2seq.encode / Seq2seq.decode) and the batch generator.*)
(*                                                                         *)
(* Characters are natural numbers ordered as their code points; a string   *)
(* is a sequence of characters.  A Python call either returns a value or   *)
(* raises: a result is a record [raised |-> name of the exception or "",   *)
(* value |-> the returned value].                                          *)
(***************************************************************************)
EXTENDS Integers, Sequences, FiniteSets

\* ---------------------------------------------------------------- bounds
NumChars == 2          \* printable characters 1..NumChars
MaxCmdLen == 2         \* gConfig["max_cmd_len"]
MaxPadLen == 1         \* longest gConfig["padding"] string
MaxLines == 1          \* lines of the corpus file
BatchSize == 2         \* gConfig["batch_size"]
RandRes == 2           \* rand() draws k / RandRes, k in 0..RandRes-1

\* The newline character that ends a line read by readlines(); str.strip()
\* removes it.  It sorts before every printable character.
NL == 0

Alphabet == 1..NumChars
Whitespace == {NL}

\* ------------------------------------------------------- Python strings
Min(S) == CHOOSE x \in S : \A z \in S : x <= z
Max(S) == CHOOSE x \in S : \A z \in S : x >= z

\* All strings over A of length 0..n.
StringsUpTo(A, n) == UNION {[1..k -> A] : k \in 0..n}

\* s[a:b] for 0 <= a, with Python's clamping of the bounds to len(s).
Slice(s, a, b) ==
  LET hi == IF b < Len(s) THEN b ELSE Len(s)
  IN  IF a >= hi THEN <<>> ELSE [i \in 1..(hi - a) |-> s[a + i]]

\* s[a:]
SliceFrom(s, a) == Slice(s, a, Len(s))

\* s[::-1]
Reversed(s) == [i \in 1..Len(s) |-> s[Len(s) + 1 - i]]

\* p * n: the empty string when n <= 0.
Repeat(p, n) ==
  IF n <= 0 THEN <<>> ELSE [i \in 1..(n * Len(p)) |-> p[((i - 1) % Len(p)) + 1]]

\* s.strip(): leading and trailing whitespace removed.
Strip(s) ==
  LET keep == {i \in 1..Len(s) : s[i] \notin Whitespace}
  IN  IF keep = {} THEN <<>> ELSE Slice(s, Min(keep) - 1, Max(keep))

Returned(v) == [raised |-> "", value |-> v]
Raised(e) == [raised |-> e, value |-> <<>>]

\* ------------------------------------------------------------- Seq2seq
\* Seq2seq.__init__: self.chars = sorted(set(chars)); char_indices maps a
\* character to its 0-based rank, indices_char is the inverse.
CharIndices(chs, c) == Cardinality({d \in chs : d < c})
IndicesChar(chs, i) == CHOOSE c \in chs : CharIndices(chs, c) = i

\* One slot of the tensor: len(self.chars) cells, cell k + 1 for index k.
ZeroSlot(chs) == [k \in 1..Cardinality(chs) |-> 0]
HotSlot(chs, c) == [k \in 1..Cardinality(chs) |-> IF k = CharIndices(chs, c) + 1 THEN 1 ELSE 0]

\* The row encode writes for one command: a slot is written for every
\* character that has an index (a KeyError is swallowed), the others stay 0.
EncodeRow(chs, cmd, max_cmd_len) ==
  [j \in 1..max_cmd_len |->
     IF j <= Len(cmd) /\ cmd[j] \in chs THEN HotSlot(chs, cmd[j]) ELSE ZeroSlot(chs)]

\* Seq2seq.encode: X[i, j, index] = 1 raises IndexError when j is outside
\* the max_cmd_len slots; the index lookup comes first, so a character
\* without an index never reaches the assignment.
Encode(chs, cmds, max_cmd_len) ==
  IF \E i \in 1..Len(cmds) : \E j \in 1..Len(cmds[i]) : j > max_cmd_len /\ cmds[i][j] \in chs
  THEN Raised("IndexError")
  ELSE Returned([i \in 1..Len(cmds) |-> EncodeRow(chs, cmds[i], max_cmd_len)])

\* numpy argmax over the last axis: the first cell holding the maximum.
ArgMax(slot) ==
  LET top == Max({slot[k] : k \in 1..Len(slot)})
  IN  Min({k \in 1..Len(slot) : slot[k] = top}) - 1

\* np.nonzero of an index sequence: the (0-based) positions holding an
\* index other than 0.
NonZero(idx) == {i \in 0..(Len(idx) - 1) : idx[i + 1] # 0}

\* command += self.indices_char[X[i]] for i in range(lo, hi)
Render(chs, idx, lo, hi) ==
  IF lo >= hi THEN <<>> ELSE [i \in 1..(hi - lo) |-> IndicesChar(chs, idx[lo + i])]

\* Seq2seq.decode.  With reduction, X is one row of the tensor and np.amax
\* / np.amin of an empty np.nonzero raises ValueError; without reduction X
\* is already an index sequence.
Decode(chs, row, max_cmd_len, reduction, inverted) ==
  IF reduction
  THEN LET idx == [i \in 1..Len(row) |-> ArgMax(row[i])]
       IN  IF NonZero(idx) = {} THEN Raised("ValueError")
           ELSE IF inverted
                THEN Returned(Render(chs, idx, Min(NonZero(idx)), max_cmd_len))
                ELSE Returned(Render(chs, idx, 0, Max(NonZero(idx)) + 1))
  ELSE IF NonZero(row) # {}
       THEN Returned(Render(chs, row, 0, Max(NonZero(row)) + 1))
       ELSE Returned(<<>>)

\* ----------------------------------------------------- create_mistakes
\* vocab_trie.longest_prefix(command)[0]: None, or a vocabulary word that
\* command starts with.  The trie is built from the vocabulary file the
\* inventory is read from, so a found prefix is written in inventory
\* characters; which words the vocabulary holds is left open.
NoPrefix == [found |-> FALSE, prefix |-> <<>>]
LongestPrefix(chs, command) ==
  {NoPrefix} \cup
  {[found |-> TRUE, prefix |-> Slice(command, 0, n)] :
     n \in {m \in 1..Len(command) : \A i \in 1..m : command[i] \in chs}}

\* numpy randint(n) draws from 0..n-1 and raises ValueError when n <= 0.
RandInt(n) == 0..(n - 1)

\* rand() draws from [0, 1); a draw is r / RandRes and level_of_noise is
\* held in the same unit, so rand() < level_of_noise is r < level.
RandValues == 0..(RandRes - 1)
NoiseLevels == 0..RandRes

\* The mistakes dictionary of create_mistakes.
Swap == 0
Deletion == 1
Addition == 2
Transposition == 3
MistakeKinds == {Swap, Deletion, Addition, Transposition}

\* The guard written with <=: it would corrupt at level_of_noise 0.
CorruptsLenient(lookup, r, level_of_noise) == lookup.found /\ r <= level_of_noise
\* if prefix is not None and rand() < level_of_noise
Corrupts(lookup, r, level_of_noise) == lookup.found /\ r < level_of_noise

\* The position drawn over the whole command instead of the prefix.
CharPositionsInCommand(command, prefix) == RandInt(Len(command))
\* char_pos = randint(len(prefix))
CharPositions(command, prefix) == RandInt(Len(prefix))

\* The branch of one mistake kind at char_pos: the strings it can build.
ApplyMistake(chs, command, ind, char_pos) ==
  CASE ind = Swap ->
         {Returned(Slice(command, 0, char_pos) \o <<c>> \o SliceFrom(command, char_pos + 1)) :
            c \in chs}
    [] ind = Deletion ->
         {Returned(Slice(command, 0, char_pos) \o SliceFrom(command, char_pos + 1))}
    [] ind = Addition ->
         {Returned(Slice(command, 0, char_pos) \o <<c>> \o SliceFrom(command, char_pos)) :
            c \in chs}
    [] ind = Transposition ->
         IF RandInt(Len(command) - 1) = {} THEN {Raised("ValueError")}
         ELSE {Returned(Slice(command, 0, p) \o <<command[p + 2], command[p + 1]>>
                        \o SliceFrom(command, p + 2)) : p \in RandInt(Len(command) - 1)}

\* create_mistakes for the draws ind (the mistake kind) and r (rand()):
\* every result the remaining draws can give.
CreateMistakes(chs, command, lookup, level_of_noise, ind, r) ==
  IF Corrupts(lookup, r, level_of_noise)
  THEN IF CharPositions(command, lookup.prefix) = {} THEN {Raised("ValueError")}
       ELSE UNION {ApplyMistake(chs, command, ind, char_pos) :
                     char_pos \in CharPositions(command, lookup.prefix)}
  ELSE {Returned(command)}

\* generate_input: the (misspelled_command, command) pairs, both padded on
\* the right with padding * (max_cmd_len - len); a count <= 0 adds nothing.
Pad(cmd, cfg) == cmd \o Repeat(cfg.padding, cfg.max_cmd_len - Len(cmd))
GenerateInput(chs, command, lookup, cfg, ind, r) ==
  {IF m.raised # "" THEN m ELSE Returned(<<Pad(m.value, cfg), Pad(command, cfg)>>) :
     m \in CreateMistakes(chs, command, lookup, cfg.level_of_noise, ind, r)}

\* ---------------------------------------------------------------- state
VARIABLES
  chars,                \* the inventory get_chars returns
  gConfig,              \* max_cmd_len, padding, level_of_noise, batch_size, inverted
  file_delimiter,       \* generator's file_delimiter
  corpus,               \* the lines f.readlines() returns
  lines,                \* generator: the filtered, stripped lines
  commands,             \* generator: the true commands of the batch
  misspelled_commands,  \* generator: the misspelled commands of the batch
  n,                    \* generator: iterations of the batch loop done
  X, y,                 \* the tensors encode returned
  pc,                   \* where the caller or the generator stands
  command,              \* the command given to create_mistakes / encode
  lookup,               \* what vocab_trie.longest_prefix returned
  draw,                 \* create_mistakes: the draws ind and r
  mode,                 \* decode: reduction and inverted
  result                \* what create_mistakes / decode returned or raised

vars == <<chars, gConfig, file_delimiter, corpus, lines, commands, misspelled_commands,
          n, X, y, pc, command, lookup, draw, mode, result>>

genVars == <<file_delimiter, corpus, lines, commands, misspelled_commands, n, y>>
mistakeVars == <<lookup, draw>>

\* The inventories: get_chars over a vocabulary that holds a character.
Inventories == (SUBSET Alphabet) \ {{}}
Paddings == StringsUpTo(Alphabet, MaxPadLen)
Configs ==
  [max_cmd_len : {MaxCmdLen}, padding : Paddings, level_of_noise : NoiseLevels,
   batch_size : {BatchSize}, inverted : BOOLEAN]

NoDraw == [ind |-> Swap, r |-> 0]
NoMode == [reduction |-> TRUE, inverted |-> FALSE]

GenIdle ==
  /\ file_delimiter = <<>> /\ corpus = <<>> /\ lines = <<>>
  /\ commands = <<>> /\ misspelled_commands = <<>> /\ n = 0 /\ y = <<>>

\* ------------------------------------------ create_mistakes, called alone
InitMistakes ==
  /\ chars \in Inventories
  /\ gConfig \in {c \in Configs : c.padding = <<>> /\ ~c.inverted}
  /\ command \in StringsUpTo(Alphabet, MaxCmdLen + 1) \ {<<>>}
  /\ lookup \in LongestPrefix(chars, command)
  /\ draw = NoDraw /\ mode = NoMode /\ result = Returned(<<>>)
  /\ X = <<>> /\ GenIdle
  /\ pc = "call"

CallCreateMistakes ==
  /\ pc = "call"
  /\ \E ind \in MistakeKinds, r \in RandValues :
       /\ draw' = [ind |-> ind, r |-> r]
       /\ result' \in CreateMistakes(chars, command, lookup, gConfig.level_of_noise, ind, r)
  /\ pc' = "done"
  /\ UNCHANGED <<chars, gConfig, command, lookup, mode, X, genVars>>

NextMistakes == CallCreateMistakes
SpecMistakes == InitMistakes /\ [][NextMistakes]_vars

\* --------------------------------------------- encode and decode, alone
InitCodec ==
  /\ chars \in Inventories
  /\ gConfig \in {c \in Configs : c.level_of_noise = 0 /\ ~c.inverted}
  /\ command \in StringsUpTo(Alphabet, MaxCmdLen)
  /\ lookup = NoPrefix /\ draw = NoDraw /\ mode = NoMode /\ result = Returned(<<>>)
  /\ X = <<>> /\ GenIdle
  /\ pc = "input"

\* X = seq2seq.encode([command], max_cmd_len)
EncodeCommand ==
  /\ pc = "input"
  /\ commands' = <<command>>
  /\ LET e == Encode(chars, commands', gConfig.max_cmd_len)
     IN  /\ X' = e.value
         /\ result' = IF e.raised = "" THEN result ELSE e
         /\ pc' = IF e.raised = "" THEN "encoded" ELSE "raised"
  /\ UNCHANGED <<chars, gConfig, command, mode, mistakeVars,
                 file_delimiter, corpus, lines, misspelled_commands, n, y>>

\* The command padded as generate_input pads it, then encoded.
EncodePadded ==
  /\ pc = "input"
  /\ commands' = <<Pad(command, gConfig)>>
  /\ LET e == Encode(chars, commands', gConfig.max_cmd_len)
     IN  /\ X' = e.value
         /\ result' = IF e.raised = "" THEN result ELSE e
         /\ pc' = IF e.raised = "" THEN "encoded" ELSE "raised"
  /\ UNCHANGED <<chars, gConfig, command, mode, mistakeVars,
                 file_delimiter, corpus, lines, misspelled_commands, n, y>>

\* seq2seq.decode(X[0], max_cmd_len, inverted=inverted)
DecodeRow ==
  /\ pc = "encoded"
  /\ \E inverted \in BOOLEAN :
       /\ mode' = [reduction |-> TRUE, inverted |-> inverted]
       /\ result' = Decode(chars, X[1], gConfig.max_cmd_len, TRUE, inverted)
  /\ pc' = "decoded"
  /\ UNCHANGED <<chars, gConfig, command, X, mistakeVars, genVars>>

\* preds = model.predict_classes(X): one inventory index per position,
\* whatever the model answers.
PredictClasses ==
  /\ pc = "encoded"
  /\ \E preds \in [1..gConfig.max_cmd_len -> 0..(Cardinality(chars) - 1)] : X' = <<preds>>
  /\ pc' = "predicted"
  /\ UNCHANGED <<chars, gConfig, command, mode, result, mistakeVars, genVars>>

\* seq2seq.decode(preds[0], max_cmd_len, reduction=False)
DecodeClasses ==
  /\ pc = "predicted"
  /\ mode' = [reduction |-> FALSE, inverted |-> FALSE]
  /\ result' = Decode(chars, X[1], gConfig.max_cmd_len, FALSE, FALSE)
  /\ pc' = "decoded"
  /\ UNCHANGED <<chars, gConfig, command, X, mistakeVars, genVars>>

NextCodec == EncodeCommand \/ EncodePadded \/ DecodeRow \/ PredictClasses \/ DecodeClasses
SpecCodec == InitCodec /\ [][NextCodec]_vars

\* ------------------------------------------------------------ generator
\* A line of the corpus file as readlines() returns it: its content and the
\* newline, which only the last line of the file may lack.
Contents == StringsUpTo(Alphabet, MaxCmdLen + 1)
Corpora ==
  UNION {{c \in [1..k -> {s \o e : s \in Contents, e \in {<<>>, <<NL>>}} \ {<<>>}] :
            \A i \in 1..(k - 1) : c[i][Len(c[i])] = NL} : k \in 0..MaxLines}

DelimiterWord == <<Min(Alphabet)>>
Delimiters == {DelimiterWord, DelimiterWord \o <<NL>>}

InitGenerator ==
  /\ chars \in Inventories
  /\ gConfig \in Configs
  /\ file_delimiter \in Delimiters
  /\ corpus \in Corpora
  /\ lines = <<>> /\ commands = <<>> /\ misspelled_commands = <<>> /\ n = 0
  /\ X = <<>> /\ y = <<>>
  /\ command = <<>> /\ lookup = NoPrefix /\ draw = NoDraw /\ mode = NoMode
  /\ result = Returned(<<>>)
  /\ pc = "start"

\* if cmd != file_delimiter and len(cmd) <= gConfig["max_cmd_len"]
KeepsLine(cmd, delimiter, max_cmd_len) == cmd # delimiter /\ Len(cmd) <= max_cmd_len

\* lines = [cmd.strip() for cmd in f.readlines() if ...]
RECURSIVE FilterLines(_, _, _)
FilterLines(raw, delimiter, max_cmd_len) ==
  IF raw = <<>> THEN <<>>
  ELSE (IF KeepsLine(Head(raw), delimiter, max_cmd_len) THEN <<Strip(Head(raw))>> ELSE <<>>)
       \o FilterLines(Tail(raw), delimiter, max_cmd_len)

\* The generator is started or resumed: while True, open(corpus), the lines
\* are read and filtered, and the batch loop begins.
ReadCorpus ==
  /\ pc \in {"start", "yielded"}
  /\ lines' = FilterLines(corpus, file_delimiter, gConfig.max_cmd_len)
  /\ n' = 0
  /\ pc' = "batch"
  /\ UNCHANGED <<chars, gConfig, file_delimiter, corpus, commands, misspelled_commands,
                 X, y, command, lookup, draw, mode, result>>

\* One iteration of for _ in range(batch_size): choice(lines) raises
\* ValueError on an empty list, generate_input may raise, the true command
\* is appended before its length is asserted, the misspelled one after.
Sample ==
  /\ pc = "batch" /\ n < gConfig.batch_size
  /\ \/ /\ lines = <<>>
        /\ result' = Raised("ValueError") /\ pc' = "raised"
        /\ UNCHANGED <<commands, misspelled_commands, n>>
     \/ \E i \in 1..Len(lines) : \E lk \in LongestPrefix(chars, lines[i]) :
        \E ind \in MistakeKinds, r \in RandValues :
        \E g \in GenerateInput(chars, lines[i], lk, gConfig, ind, r) :
          IF g.raised # ""
          THEN /\ result' = g /\ pc' = "raised"
               /\ UNCHANGED <<commands, misspelled_commands, n>>
          ELSE /\ commands' = Append(commands, g.value[2])
               /\ IF Len(g.value[2]) # gConfig.max_cmd_len
                  THEN /\ result' = Raised("AssertionError") /\ pc' = "raised"
                       /\ UNCHANGED <<misspelled_commands, n>>
                  ELSE /\ misspelled_commands' =
                            Append(misspelled_commands,
                                   IF gConfig.inverted THEN Reversed(g.value[1]) ELSE g.value[1])
                       /\ n' = n + 1
                       /\ UNCHANGED <<result, pc>>
  /\ UNCHANGED <<chars, gConfig, file_delimiter, corpus, lines, X, y,
                 command, lookup, draw, mode>>

\* The end of a step without lines 198-199: the buffers are not emptied.
EncodeBatchKeepingBuffers ==
  /\ pc = "batch" /\ n = gConfig.batch_size
  /\ LET ex == Encode(chars, misspelled_commands, gConfig.max_cmd_len)
         ey == Encode(chars, commands, gConfig.max_cmd_len)
     IN  IF Len(commands) # Len(misspelled_commands) \/ Len(commands) # gConfig.batch_size
         THEN /\ result' = Raised("AssertionError") /\ pc' = "raised"
              /\ UNCHANGED <<commands, misspelled_commands, X, y>>
         ELSE IF ex.raised # "" \/ ey.raised # ""
         THEN /\ result' = IF ex.raised # "" THEN ex ELSE ey
              /\ pc' = "raised"
              /\ X' = IF ex.raised # "" THEN X ELSE ex.value
              /\ UNCHANGED <<commands, misspelled_commands, y>>
         ELSE /\ X' = ex.value /\ y' = ey.value
              /\ pc' = "yielded"
              /\ UNCHANGED <<commands, misspelled_commands, result>>
  /\ UNCHANGED <<chars, gConfig, file_delimiter, corpus, lines, n,
                 command, lookup, draw, mode>>

\* After the loop: the two asserts, the two encodes, the buffers are
\* emptied and (X, y) is yielded.
EncodeBatch ==
  /\ pc = "batch" /\ n = gConfig.batch_size
  /\ LET ex == Encode(chars, misspelled_commands, gConfig.max_cmd_len)
         ey == Encode(chars, commands, gConfig.max_cmd_len)
     IN  IF Len(commands) # Len(misspelled_commands) \/ Len(commands) # gConfig.batch_size
         THEN /\ result' = Raised("AssertionError") /\ pc' = "raised"
              /\ UNCHANGED <<commands, misspelled_commands, X, y>>
         ELSE IF ex.raised # "" \/ ey.raised # ""
         THEN /\ result' = IF ex.raised # "" THEN ex ELSE ey
              /\ pc' = "raised"
              /\ X' = IF ex.raised # "" THEN X ELSE ex.value
              /\ UNCHANGED <<commands, misspelled_commands, y>>
         ELSE /\ X' = ex.value /\ y' = ey.value
              /\ commands' = <<>> /\ misspelled_commands' = <<>>
              /\ pc' = "yielded"
              /\ UNCHANGED result
  /\ UNCHANGED <<chars, gConfig, file_delimiter, corpus, lines, n,
                 command, lookup, draw, mode>>

NextGenerator == ReadCorpus \/ Sample \/ EncodeBatch
Spec == InitGenerator /\ [][NextGenerator]_vars

\* =============================================================== claims
\* Helpers of the statements below.
InInventory(s) == \A i \in 1..Len(s) : s[i] \in chars
EndsWith(s, suffix) ==
  Len(suffix) <= Len(s) /\ SliceFrom(s, Len(s) - Len(suffix)) = suffix
DecodedPlain == pc = "decoded" /\ mode = [reduction |-> TRUE, inverted |-> FALSE]
TensorShape(T) ==
  /\ Len(T) = gConfig.batch_size
  /\ \A i \in 1..Len(T) :
       /\ Len(T[i]) = gConfig.max_cmd_len
       /\ \A j \in 1..Len(T[i]) : Len(T[i][j]) = Cardinality(chars)

\* C1 (SpecCodec): round trip.  A string of at most max_cmd_len inventory
\* characters, encoded alone and decoded with reduction=True,
\* inverted=False, comes back exactly.
RoundTrip ==
  (DecodedPlain /\ commands = <<command>> /\ InInventory(command))
    => result = Returned(command)

\* C2 (SpecCodec): padding invariance.  A command right-padded with the
\* padding sentinel to max_cmd_len, encoded and decoded with
\* reduction=True, inverted=False, gives a string that does not end with
\* the sentinel, whether or not the sentinel is in the inventory.  The
\* commands taken are those that do not themselves hold a sentinel character.
PaddingInvariance ==
  (/\ DecodedPlain
   /\ commands = <<Pad(command, gConfig)>>
   /\ gConfig.padding # <<>>
   /\ \A i \in 1..Len(command) : \A k \in 1..Len(gConfig.padding) :
        command[i] # gConfig.padding[k])
    => (result.raised = "" /\ ~EndsWith(result.value, gConfig.padding))

\* C6 (SpecCodec): decoding a row whose slots are all zero (with
\* reduction=False: an index sequence of zeros) does not raise and gives
\* the empty string, for both values of inverted.
AllZero(row) ==
  IF mode.reduction
  THEN \A i \in 1..Len(row) : \A k \in 1..Len(row[i]) : row[i][k] = 0
  ELSE \A i \in 1..Len(row) : row[i] = 0
DecodeAllZeroRow ==
  (pc = "decoded" /\ AllZero(X[1])) => result = Returned(<<>>)

\* C5 (SpecMistakes): create_mistakes has no error condition: whatever the
\* non-empty command, inventory, noise level, prefix lookup, mistake kind
\* and draws, it returns a string.
CreateMistakesNeverRaises ==
  pc = "done" => result.raised = ""

\* C7 (SpecMistakes): create_mistakes returns the command unchanged when
\* the prefix lookup finds nothing, and when level_of_noise is 0.
NoCorruptionPermitted ==
  (pc = "done" /\ (~lookup.found \/ gConfig.level_of_noise = 0))
    => result = Returned(command)

NoCorruptionWitness ==
  /\ pc = "done" /\ lookup.found /\ gConfig.level_of_noise = 0
  /\ draw.ind = Deletion /\ result = Returned(command)

\* C10 (SpecMistakes): where a corruption is applied with found prefix p to
\* command c and gives o.  Swap, Deletion and Addition act at a position k
\* with 0 <= k < len(p): o is c with the character at k replaced by an
\* inventory character, removed, or preceded by an inventory character, so
\* the length changes by 0, -1, +1 and c[len(p):] ends o.  Transposition
\* acts at a position k with 0 <= k < len(c) - 1 and exchanges c[k] and
\* c[k+1], every other character and the length unchanged.
ReplacedAt(c, o, k) ==
  /\ Len(o) = Len(c) /\ o[k + 1] \in chars
  /\ \A i \in 1..Len(c) : i # k + 1 => o[i] = c[i]
RemovedAt(c, o, k) ==
  /\ Len(o) = Len(c) - 1
  /\ \A i \in 1..Len(o) : o[i] = IF i <= k THEN c[i] ELSE c[i + 1]
InsertedAt(c, o, k) ==
  /\ Len(o) = Len(c) + 1 /\ o[k + 1] \in chars
  /\ \A i \in 1..Len(c) : c[i] = IF i <= k THEN o[i] ELSE o[i + 1]
ExchangedAt(c, o, k) ==
  /\ Len(o) = Len(c) /\ o[k + 1] = c[k + 2] /\ o[k + 2] = c[k + 1]
  /\ \A i \in 1..Len(c) : i \notin {k + 1, k + 2} => o[i] = c[i]
CorruptionApplied ==
  pc = "done" /\ lookup.found /\ draw.r < gConfig.level_of_noise /\ result.raised = ""
PrefixBoundedPlacement ==
  CorruptionApplied =>
    LET c == command
        p == lookup.prefix
        o == result.value
        inPrefix == 0..(Len(p) - 1)
        tailKept == EndsWith(o, SliceFrom(c, Len(p)))
    IN  /\ draw.ind = Swap => tailKept /\ \E k \in inPrefix : ReplacedAt(c, o, k)
        /\ draw.ind = Deletion => tailKept /\ \E k \in inPrefix : RemovedAt(c, o, k)
        /\ draw.ind = Addition => tailKept /\ \E k \in inPrefix : InsertedAt(c, o, k)
        /\ draw.ind = Transposition => \E k \in 0..(Len(c) - 2) : ExchangedAt(c, o, k)

\* A transposition that exchanges two characters behind the found prefix.
PlacementWitness ==
  /\ CorruptionApplied /\ draw.ind = Transposition
  /\ Len(lookup.prefix) = 1 /\ Len(command) = 3
  /\ result.value # command /\ result.value[1] = command[1]

\* C3 (Spec): every y row the generator emits decodes (reduction=True,
\* inverted=False) to one of the filtered lines the step drew from.
YRowsDecodeToLines ==
  pc = "yielded" =>
    \A i \in 1..Len(y) :
      LET d == Decode(chars, y[i], gConfig.max_cmd_len, TRUE, FALSE)
      IN  d.raised = "" /\ \E j \in 1..Len(lines) : lines[j] = d.value

\* C4 (Spec): every emitted pair has X.shape == y.shape == (batch_size,
\* max_cmd_len, alphabet_size); the buffers are empty when a step starts
\* and hold one command per iteration done, never rows of an earlier step.
BatchShapes ==
  /\ pc = "yielded" => TensorShape(X) /\ TensorShape(y)
  /\ pc \in {"start", "yielded"} => commands = <<>> /\ misspelled_commands = <<>>
  /\ pc = "batch" => Len(commands) = n /\ Len(misspelled_commands) = n

\* A batch that holds a corrupted command has been emitted.
BatchShapesWitness ==
  pc = "yielded" /\ TensorShape(X) /\ TensorShape(y) /\ X # y

\* C8 (Spec): the lines a step draws from hold no line equal to the
\* delimiter and none longer than max_cmd_len, and hold every corpus line
\* whose content is not the delimiter and has at most max_cmd_len
\* characters, newline-terminated or not.
CorpusFiltering ==
  pc = "batch" =>
    /\ \A j \in 1..Len(lines) :
         lines[j] # Strip(file_delimiter) /\ Len(lines[j]) <= gConfig.max_cmd_len
    /\ \A i \in 1..Len(corpus) :
         (Strip(corpus[i]) # Strip(file_delimiter)
            /\ Len(Strip(corpus[i])) <= gConfig.max_cmd_len)
           => \E j \in 1..Len(lines) : lines[j] = Strip(corpus[i])

\* C9 (Spec): a length violation is fatal.  Once the batch holds a true or
\* a misspelled command whose padded length is not max_cmd_len, the
\* generator does not go on to emit (X, y).  Stated for the configurations
\* whose padding sentinel is one character, where only a corruption can
\* give a wrong length.
WrongLength(buffer) == \E i \in 1..Len(buffer) : Len(buffer[i]) # gConfig.max_cmd_len
LengthViolationsFatal ==
  [][(/\ pc = "batch"
      /\ Len(gConfig.padding) = 1
      /\ (WrongLength(commands) \/ WrongLength(misspelled_commands)))
       => pc' # "yielded"]_vars

====
